---------------------------- MODULE Spec2Model ----------------------------
(***************************************************************************)
(* A model of the mediainfo HTTP service in its two variants:              *)
(*   "app"   : src/app.py        (handler mediainfo_api)                   *)
(*   "index" : src/api/index.py  (handlers home and get_mediainfo)         *)
(* Text is modelled as sequences of one-character strings, so that the     *)
(* substring tests and the regular expressions of the Source Resolver are  *)
(* computed and not assumed.  Error messages are sequences of words.       *)
(***************************************************************************)
EXTENDS Integers, Sequences, FiniteSets, TLC

(***************************************************************************)
(* Bounds of the model.  MaxSize and ChunkSize stand for max_size          *)
(* (10*1024*1024) and chunk_size (8192), scaled down.                      *)
(***************************************************************************)
MaxSize == 4
ChunkSize == 2
NumNames == 2
MaxIdLen == 2
MaxTracks == 4

(***************************************************************************)
(* Text helpers.                                                           *)
(***************************************************************************)
Contains(s, sub) ==
    \E i \in 1..(Len(s) - Len(sub) + 1) : SubSeq(s, i, i + Len(sub) - 1) = sub

LowerSeq == <<"a","b","c","d","e","f","g","h","i","j","k","l","m",
             "n","o","p","q","r","s","t","u","v","w","x","y","z">>
UpperSeq == <<"A","B","C","D","E","F","G","H","I","J","K","L","M",
             "N","O","P","Q","R","S","T","U","V","W","X","Y","Z">>
Lower == {LowerSeq[i] : i \in 1..26}
Upper == {UpperSeq[i] : i \in 1..26}
Digit == {"0","1","2","3","4","5","6","7","8","9"}

\* The character class [a-zA-Z0-9-_] of the three patterns.
IdChars == Lower \cup Upper \cup Digit \cup {"-", "_"}

\* str.lower()
LowerChar(c) ==
    IF c \in Upper THEN LowerSeq[CHOOSE i \in 1..26 : UpperSeq[i] = c] ELSE c
lower(s) == [i \in 1..Len(s) |-> LowerChar(s[i])]

\* An optional text: Python's None, or a str.
NoneStr == [isNone |-> TRUE, s |-> <<>>]
Str(s) == [isNone |-> FALSE, s |-> s]

\* Python truthiness of an optional text: None and '' are falsy.
Falsy_only_none(v) == v.isNone
Falsy(v) == v.isNone \/ v.s = <<>>

(***************************************************************************)
(* Source Resolver.                                                        *)
(***************************************************************************)
DriveHost == <<"d","r","i","v","e",".","g","o","o","g","l","e",".","c","o","m">>
DocsHost == <<"d","o","c","s",".","g","o","o","g","l","e",".","c","o","m">>

is_gdrive_url_nodocs(url) == Contains(url, DriveHost)
is_gdrive_url(url) == Contains(url, DriveHost) \/ Contains(url, DocsHost)

\* The three patterns, each a literal prefix followed by ([a-zA-Z0-9-_]+).
PatFileD == <<"/","f","i","l","e","/","d","/">>
PatId == <<"i","d","=">>
PatOpenId == <<"/","o","p","e","n","?","i","d","=">>
patterns == <<PatFileD, PatId, PatOpenId>>
patterns_id_first == <<PatId, PatFileD, PatOpenId>>

\* Positions at which `lit` occurs in s immediately followed by an id character.
MatchStarts(lit, s) ==
    {i \in 1..(Len(s) - Len(lit)) :
        /\ SubSeq(s, i, i + Len(lit) - 1) = lit
        /\ s[i + Len(lit)] \in IdChars}

Min(S) == CHOOSE x \in S : \A y \in S : x <= y

\* The end of the longest run of id characters of s that starts at position b.
RunEnd(s, b) ==
    Min({e \in b..Len(s) : e = Len(s) \/ s[e + 1] \notin IdChars})

\* re.search(lit([a-zA-Z0-9-_]+), s): the leftmost match, its group greedy.
ReSearch(lit, s) ==
    IF MatchStarts(lit, s) = {} THEN NoneStr
    ELSE LET b == Min(MatchStarts(lit, s)) + Len(lit)
         IN  Str(SubSeq(s, b, RunEnd(s, b)))

RECURSIVE FirstMatch(_, _, _)
FirstMatch(pats, k, url) ==
    IF k > Len(pats) THEN NoneStr
    ELSE IF ~ReSearch(pats[k], url).isNone THEN ReSearch(pats[k], url)
    ELSE FirstMatch(pats, k + 1, url)

extract_gdrive_id_idfirst(url) == FirstMatch(patterns_id_first, 1, url)
extract_gdrive_id(url) == FirstMatch(patterns, 1, url)

Https == <<"h","t","t","p","s",":","/","/">>
UserContentHost == <<"d","r","i","v","e",".","u","s","e","r","c","o","n","t","e","n","t",
                     ".","g","o","o","g","l","e",".","c","o","m">>
DownloadIdPath == <<"/","d","o","w","n","l","o","a","d","?","i","d","=">>
UcExportIdPath == <<"/","u","c","?","e","x","p","o","r","t","=","d","o","w","n","l","o","a","d",
                    "&","i","d","=">>
ExportSuffix == <<"&","e","x","p","o","r","t","=","d","o","w","n","l","o","a","d">>
ConfirmSuffix == <<"&","c","o","n","f","i","r","m","=","t">>

\* app.py: the three fallback URLs built from the file id, in list order.
gdrive_methods_four(file_id) ==
    << Https \o UserContentHost \o DownloadIdPath \o file_id \o ExportSuffix,
       Https \o DriveHost \o UcExportIdPath \o file_id \o ConfirmSuffix,
       Https \o DocsHost \o UcExportIdPath \o file_id,
       Https \o DriveHost \o UcExportIdPath \o file_id >>
gdrive_methods(file_id) ==
    << Https \o UserContentHost \o DownloadIdPath \o file_id \o ExportSuffix,
       Https \o DriveHost \o UcExportIdPath \o file_id \o ConfirmSuffix,
       Https \o DocsHost \o UcExportIdPath \o file_id >>

\* index.py: the one download URL built from the file id.
gdrive_download_url(file_id) == Https \o DriveHost \o UcExportIdPath \o file_id

(***************************************************************************)
(* The state.  Every per-request variable is a function of the request.    *)
(***************************************************************************)
VARIABLES
    variant,        \* which program runs: "app" (src/app.py) or "index" (src/api/index.py)
    fs,             \* the temp directory: name -> [exists, size, owner]
    pc,             \* where each request is
    via,            \* "http": routed by the framework; "call": the view function called
    handler,        \* the view function serving the request
    url,            \* request.args.get('url')
    fmt,            \* request.args.get('format')
    cand,           \* app.py: index of the candidate of gdrive_methods being tried
    attempts,       \* the GET requests issued so far, each with its outcome
    response,       \* download_sample's local `response`
    temp_file,      \* download_sample's local `temp_file` (0: not created)
    downloaded,     \* download_sample's local `downloaded`
    temp_path,      \* the handler's local `temp_path` (0: not assigned)
    content_length, \* the handler's local `content_length`
    exc,            \* the exception in flight inside the handler's inner try
    retval,         \* the value the inner try body returns
    reply,          \* the response the handler returned
    failure,        \* history: the step whose failure ended the pipeline
    unlinkFailed,   \* history: os.unlink raised
    fn,             \* pure-function specifications: the function applied
    arg,            \* pure-function specifications: its input
    out             \* pure-function specifications: its result

reqVars == <<pc, via, handler, url, fmt, cand, attempts, response, temp_file,
             downloaded, temp_path, content_length, exc, retval, reply,
             failure, unlinkFailed>>
pureVars == <<fn, arg, out>>
vars == <<variant, fs, reqVars, pureVars>>

\* The requests of the model; Spec serves the requests of Solo, one by one.
Reqs == {1, 2}
Solo == {1}
Names == 1..NumNames

NoFile == [exists |-> FALSE, size |-> 0, owner |-> 0]
NoResponse == [bound |-> FALSE, url |-> <<>>, status |-> 0, html |-> FALSE,
               clen |-> NoneStr]
NoExc == [raised |-> FALSE, msg |-> <<>>]
NoReply == [status |-> 0, kind |-> "none", keys |-> {}, msg |-> <<>>]

(***************************************************************************)
(* Inputs.                                                                 *)
(***************************************************************************)
ExampleHost == <<"a",".","i","o">>
U_direct == Https \o ExampleHost \o <<"/","v",".","m","p","4">>
U_lookalike ==
    Https \o ExampleHost \o PatFileD \o <<"A","B","/","x","?">> \o PatId \o <<"Q">>
U_file == Https \o DriveHost \o PatFileD \o <<"a","B","-","9">> \o <<"/","v","i","e","w">>
U_file_id ==
    Https \o DriveHost \o PatFileD \o <<"a","B">> \o <<"/","v","?">> \o PatId \o <<"Z","_">>
U_open == Https \o DriveHost \o PatOpenId \o <<"Q","1">>
U_docs == Https \o DocsHost \o <<"/","u","c","?">> \o PatId \o <<"x">>
U_noid == Https \o DriveHost \o <<"/","d","r","i","v","e","/","m","y","-","d">>
U_emptyid == Https \o DocsHost \o PatFileD \o <<"/","v","i","e","w">>

UrlInputs == {U_direct, U_lookalike, U_file, U_file_id, U_open, U_docs, U_noid,
              U_emptyid}
UrlParams == {NoneStr, Str(<<>>)} \cup {Str(u) : u \in UrlInputs}
FmtParams == {NoneStr, Str(<<"J","S","O","N">>), Str(<<"t","e","x","t">>)}

Statuses == {200, 206, 404}
ContentLengths == {NoneStr, Str(<<"9">>)}

(***************************************************************************)
(* Routing.  Both variants register their views on GET /; the framework    *)
(* serves a request with the first registered rule that matches.           *)
(***************************************************************************)
routes(v) ==
    IF v = "app" THEN <<"mediainfo_api">> ELSE <<"home", "get_mediainfo">>
dispatch(v) == routes(v)[1]

\* request.args.get('format', <default>).lower()
output_format(v, f) ==
    IF f.isNone THEN (IF v = "app" THEN <<"t","e","x","t">> ELSE <<"j","s","o","n">>)
    ELSE lower(f.s)
IsJson(v, f) == output_format(v, f) = <<"j","s","o","n">>

(***************************************************************************)
(* Python values, as the extractor and the HTTP layer deliver them: None,  *)
(* bool, int, float (n counts thousandths) and str.                        *)
(***************************************************************************)
PyNone == [t |-> "None", n |-> 0, s |-> <<>>]
PyBool(b) == [t |-> "bool", n |-> IF b THEN 1 ELSE 0, s |-> <<>>]
PyInt(k) == [t |-> "int", n |-> k, s |-> <<>>]
PyFloat(milli) == [t |-> "float", n |-> milli, s |-> <<>>]
PyStr(cs) == [t |-> "str", n |-> 0, s |-> cs]

\* bool(v)
Truthy(v) ==
    CASE v.t = "None" -> FALSE
      [] v.t = "str" -> v.s # <<>>
      [] OTHER -> v.n # 0

DigitSeq == <<"0","1","2","3","4","5","6","7","8","9">>
DigitVal(c) == (CHOOSE i \in 1..10 : DigitSeq[i] = c) - 1
IsDigits(cs) == cs # <<>> /\ \A i \in 1..Len(cs) : cs[i] \in Digit

RECURSIVE DigitsVal(_)
DigitsVal(cs) ==
    IF cs = <<>> THEN 0
    ELSE 10 * DigitsVal(SubSeq(cs, 1, Len(cs) - 1)) + DigitVal(cs[Len(cs)])

RECURSIVE Strip(_)
Strip(cs) ==
    IF cs # <<>> /\ cs[1] = " " THEN Strip(Tail(cs))
    ELSE IF cs # <<>> /\ cs[Len(cs)] = " " THEN Strip(SubSeq(cs, 1, Len(cs) - 1))
    ELSE cs

Signed(cs) == cs # <<>> /\ cs[1] \in {"-", "+"}
Unsigned(cs) == IF Signed(cs) THEN Tail(cs) ELSE cs
SignOf(cs) == IF cs # <<>> /\ cs[1] = "-" THEN -1 ELSE 1

\* int(str): optional blanks, an optional sign, decimal digits.
ParseInt(cs) ==
    LET b == Unsigned(Strip(cs))
    IN  IF IsDigits(b) THEN [ok |-> TRUE, n |-> SignOf(Strip(cs)) * DigitsVal(b)]
        ELSE [ok |-> FALSE, n |-> 0]

Pow10(d) == CASE d = 0 -> 1 [] d = 1 -> 10 [] d = 2 -> 100 [] d = 3 -> 1000

\* A float as sign and magnitude: neg, whole part w, thousandths f < 1000.
Flt(neg, w, f) == [ok |-> TRUE, neg |-> neg, w |-> w, f |-> f]
NoFlt == [ok |-> FALSE, neg |-> FALSE, w |-> 0, f |-> 0]

\* float(str): digits with at most one point and at most three decimals
\* (the inputs of the model carry no exponent, inf or nan).
ParseFloat(cs) ==
    LET b == Unsigned(Strip(cs))
        dots == {i \in 1..Len(b) : b[i] = "."}
        dot == IF dots = {} THEN Len(b) + 1 ELSE Min(dots)
        ip == SubSeq(b, 1, dot - 1)
        fp == SubSeq(b, dot + 1, Len(b))
        wellFormed == /\ Cardinality(dots) <= 1
                      /\ ip \o fp # <<>>
                      /\ \A i \in 1..Len(ip) : ip[i] \in Digit
                      /\ \A i \in 1..Len(fp) : fp[i] \in Digit
                      /\ Len(fp) <= 3
    IN  IF wellFormed
        THEN Flt(SignOf(Strip(cs)) < 0, DigitsVal(ip),
                 DigitsVal(fp) * Pow10(3 - Len(fp)))
        ELSE NoFlt

Abs(x) == IF x < 0 THEN -x ELSE x
\* Truncation toward zero.
Trunc(num, den) == IF num < 0 THEN -((-num) \div den) ELSE num \div den

\* int(v): raises TypeError for None, ValueError for a str that is no integer.
ToInt(v) ==
    CASE v.t = "None" -> [ok |-> FALSE, n |-> 0]
      [] v.t = "str" -> ParseInt(v.s)
      [] v.t = "float" -> [ok |-> TRUE, n |-> Trunc(v.n, 1000)]
      [] OTHER -> [ok |-> TRUE, n |-> v.n]

\* float(v): raises TypeError for None, ValueError for a str that is no number.
ToFloat(v) ==
    CASE v.t = "None" -> NoFlt
      [] v.t = "str" -> ParseFloat(v.s)
      [] v.t = "float" -> Flt(v.n < 0, Abs(v.n) \div 1000, Abs(v.n) % 1000)
      [] OTHER -> Flt(v.n < 0, Abs(v.n), 0)

\* The values Python's arithmetic and comparisons with numbers accept.
IsNumber(v) == v.t \in {"bool", "int", "float"}

RECURSIVE DigitsOf(_)
DigitsOf(k) ==
    IF k < 10 THEN <<DigitSeq[k + 1]>>
    ELSE DigitsOf(k \div 10) \o <<DigitSeq[(k % 10) + 1]>>

IntStr(k) == IF k < 0 THEN <<"-">> \o DigitsOf(-k) ELSE DigitsOf(k)

\* k written with exactly d digits.
Padded(k, d) ==
    LET ds == DigitsOf(k)
    IN  [i \in 1..(d - Len(ds)) |-> "0"] \o ds

\* num/den (both >= 0, den > 0) rounded to an integer, ties to even.
RoundHalfEven(num, den) ==
    LET q == num \div den
        rem == num % den
    IN  IF 2 * rem > den \/ (2 * rem = den /\ q % 2 = 1) THEN q + 1 ELSE q

\* A magnitude in units of 10^-d, written with d decimals after a sign.
Decimal(neg, scaled, d) ==
    (IF neg THEN <<"-">> ELSE <<>>)
    \o DigitsOf(scaled \div Pow10(d))
    \o (IF d = 0 THEN <<>> ELSE <<".">> \o Padded(scaled % Pow10(d), d))

\* f"{x:.<d>f}" for the integer ratio x = num/den, den > 0.
Fixed(num, den, d) == Decimal(num < 0, RoundHalfEven(Abs(num) * Pow10(d), den), d)

\* x / den for the float x, den one of 1, 1024, 1000, 1024**2, 1000000,
\* rounded to d decimals, ties to even: the integer part ip and the decimals
\* fp.  The whole part of x is divided first: no product leaves 32 bits.
RoundedFlt(x, den, d) ==
    LET q == x.w \div den
        num == (x.w % den) * 1000 + x.f
        unit == (1000 * den) \div Pow10(d)
        k == num \div unit
        rem == num % unit
        odd == IF d = 0 THEN (q + k) % 2 = 1 ELSE k % 2 = 1
        up == 2 * rem > unit \/ (2 * rem = unit /\ odd)
        k2 == IF up THEN k + 1 ELSE k
    IN  IF k2 = Pow10(d) THEN [ip |-> q + 1, fp |-> 0] ELSE [ip |-> q, fp |-> k2]

\* f"{x / den:.<d>f}"
FixedFlt(x, den, d) ==
    LET r == RoundedFlt(x, den, d)
    IN  (IF x.neg THEN <<"-">> ELSE <<>>) \o DigitsOf(r.ip)
        \o (IF d = 0 THEN <<>> ELSE <<".">> \o Padded(r.fp, d))

\* repr of a float given in units of 1/scale (scale 100 or 1000): the
\* shortest decimal, with at least one decimal digit.
RECURSIVE TrimZeros(_)
TrimZeros(cs) ==
    IF Len(cs) > 1 /\ cs[Len(cs)] = "0" THEN TrimZeros(SubSeq(cs, 1, Len(cs) - 1))
    ELSE cs
ReprFloat(k, scale, d) ==
    (IF k < 0 THEN <<"-">> ELSE <<>>)
    \o DigitsOf(Abs(k) \div scale) \o <<".">> \o TrimZeros(Padded(Abs(k) % scale, d))

\* repr of the non-negative float ip + fp / 10^d
ReprRounded(r, d) == DigitsOf(r.ip) \o <<".">> \o TrimZeros(Padded(r.fp, d))

\* f"{k:,}".replace(",", " ")
RECURSIVE GroupDigits(_)
GroupDigits(ds) ==
    IF Len(ds) <= 3 THEN ds
    ELSE GroupDigits(SubSeq(ds, 1, Len(ds) - 3)) \o <<" ">>
         \o SubSeq(ds, Len(ds) - 2, Len(ds))
Grouped(k) == (IF k < 0 THEN <<"-">> ELSE <<>>) \o GroupDigits(DigitsOf(Abs(k)))

\* str(v)
py_str(v) ==
    CASE v.t = "None" -> <<"N","o","n","e">>
      [] v.t = "str" -> v.s
      [] v.t = "bool" -> (IF v.n = 1 THEN <<"T","r","u","e">>
                          ELSE <<"F","a","l","s","e">>)
      [] v.t = "int" -> IntStr(v.n)
      [] v.t = "float" -> ReprFloat(v.n, 1000, 3)

\* What a call produced: a returned text (two for the pixel dimensions), or
\* an exception.
Returns(cs) == [raised |-> FALSE, text |-> cs, text2 |-> <<>>]
Returns2(a, b) == [raised |-> FALSE, text |-> a, text2 |-> b]
Raises == [raised |-> TRUE, text |-> <<>>, text2 |-> <<>>]

Unknown == <<"U","n","k","n","o","w","n">>
ZeroB == <<"0","B">>

(***************************************************************************)
(* The conversion functions of src/app.py.                                 *)
(***************************************************************************)
KiB == 1024
MiB == 1048576
GiB == 1073741824

get_readable_bytes(v) ==
    IF ~Truthy(v) THEN Returns(Unknown)
    ELSE IF ~ToInt(v).ok THEN Returns(Unknown)
    ELSE LET size_bytes == ToInt(v).n
         IN  IF size_bytes = 0 THEN Returns(ZeroB)
             ELSE IF size_bytes >= GiB
                  THEN Returns(Fixed(size_bytes, GiB, 1) \o <<" ","G","i","B">>)
             ELSE IF size_bytes >= MiB
                  THEN Returns(Fixed(size_bytes, MiB, 1) \o <<" ","M","i","B">>)
             ELSE IF size_bytes >= KiB
                  THEN Returns(Fixed(size_bytes, KiB, 1) \o <<" ","K","i","B">>)
             ELSE Returns(IntStr(size_bytes) \o <<" ","B">>)

get_readable_bitrate(v) ==
    IF ~Truthy(v) THEN Returns(Unknown)
    ELSE IF ~ToFloat(v).ok THEN Returns(Unknown)
    ELSE LET bitrate_bps == ToFloat(v)
         IN  IF ~bitrate_bps.neg /\ bitrate_bps.w >= 1000000
             THEN Returns(FixedFlt(bitrate_bps, 1000000, 1) \o <<" ","M","b","/","s">>)
             ELSE IF ~bitrate_bps.neg /\ bitrate_bps.w >= 1000
             THEN Returns(FixedFlt(bitrate_bps, 1000, 0) \o <<" ","k","b","/","s">>)
             ELSE Returns(FixedFlt(bitrate_bps, 1, 0) \o <<" ","b","/","s">>)

\* The hours, minutes and seconds format_duration computes from
\* duration_sec = float(duration_ms) / 1000 with // and % (both floor).
duration_parts_nomod(x) ==
    LET ms == IF x.neg THEN -(x.w + (IF x.f > 0 THEN 1 ELSE 0)) ELSE x.w
    IN  [hours |-> ms \div 3600000,
         minutes |-> ms \div 60000,
         seconds |-> (ms % 60000) \div 1000]
duration_parts(x) ==
    LET ms == IF x.neg THEN -(x.w + (IF x.f > 0 THEN 1 ELSE 0)) ELSE x.w
    IN  [hours |-> ms \div 3600000,
         minutes |-> (ms % 3600000) \div 60000,
         seconds |-> (ms % 60000) \div 1000]

format_duration(v) ==
    IF ~Truthy(v) THEN Returns(Unknown)
    ELSE IF ~ToFloat(v).ok THEN Returns(Unknown)
    ELSE LET d == duration_parts(ToFloat(v))
             h == IntStr(d.hours) \o <<" ","h">>
             m == IntStr(d.minutes) \o <<" ","m","i","n">>
             sec == IntStr(d.seconds) \o <<" ","s">>
         IN  IF d.hours > 0
             THEN (IF d.minutes > 0 THEN Returns(h \o <<" ">> \o m) ELSE Returns(h))
             ELSE IF d.minutes > 0
             THEN (IF d.seconds > 0 THEN Returns(m \o <<" ">> \o sec) ELSE Returns(m))
             ELSE Returns(sec)

Fps == <<" ","F","P","S">>

format_frame_rate(v) ==
    IF ~Truthy(v) THEN Returns(Unknown)
    ELSE IF ~ToFloat(v).ok THEN Returns(py_str(v))
    ELSE LET x == ToFloat(v)
             \* thousandths of fr, capped: a rate of 1000 or more is neither
             fr == IF x.neg THEN -1 ELSE IF x.w >= 1000 THEN 1000000
                   ELSE 1000 * x.w + x.f
         IN  IF Abs(fr - 23976) < 10
             THEN Returns(<<"2","3",".","9","7","6"," ","(","2","4","0","0","0","/",
                            "1","0","0","1",")">> \o Fps)
             ELSE IF Abs(fr - 29970) < 10
             THEN Returns(<<"2","9",".","9","7","0"," ","(","3","0","0","0","0","/",
                            "1","0","0","1",")">> \o Fps)
             ELSE Returns(FixedFlt(x, 1, 3) \o Fps)

format_pixel_dimensions(width, height) ==
    IF ToInt(width).ok /\ ToInt(height).ok
    THEN Returns2(Grouped(ToInt(width).n), Grouped(ToInt(height).n))
    ELSE Returns2(py_str(width), py_str(height))

(***************************************************************************)
(* The conversion functions of src/api/index.py.                           *)
(***************************************************************************)
size_names == << <<"B">>, <<"K","B">>, <<"M","B">>, <<"G","B">>, <<"T","B">> >>

\* v == 0 in Python: true of 0, 0.0 and False, of no str and not of None.
EqualsZero(v) == IsNumber(v) /\ v.n = 0

\* int(math.floor(math.log(x, 1024))) for a float x of at least 0.001 and
\* below 1024**3.
LogIndex(x) ==
    IF x.w >= MiB THEN 2 ELSE IF x.w >= KiB THEN 1 ELSE IF x.w >= 1 THEN 0 ELSE -1

index_get_readable_bytes(v) ==
    IF EqualsZero(v) THEN Returns(ZeroB)
    ELSE IF ~IsNumber(v) \/ ToFloat(v).neg THEN Raises
    ELSE LET x == ToFloat(v)
             i == LogIndex(x)
             \* the text of s = round(size_bytes / p, 2)
             s == CASE i = -1 -> ReprFloat(RoundHalfEven(x.f * KiB, 10), 100, 2)
                    [] i = 0 -> ReprRounded(RoundedFlt(x, 1, 2), 2)
                    [] i = 1 -> ReprRounded(RoundedFlt(x, KiB, 2), 2)
                    [] i = 2 -> ReprRounded(RoundedFlt(x, MiB, 2), 2)
             \* size_names[-1] is the last name
             name == IF i = -1 THEN size_names[Len(size_names)] ELSE size_names[i + 1]
         IN  Returns(s \o <<" ">> \o name)

index_get_readable_bitrate(v) ==
    IF ~IsNumber(v) THEN Raises
    ELSE LET x == ToFloat(v)
         IN  IF x.neg \/ x.w < 1000
             THEN Returns(FixedFlt(x, 1, 0) \o <<" ","b","p","s">>)
             ELSE IF x.w < 1000000
             THEN Returns(FixedFlt(x, 1000, 1) \o <<" ","K","b","p","s">>)
             ELSE Returns(FixedFlt(x, 1000000, 1) \o <<" ","M","b","p","s">>)

(***************************************************************************)
(* Replies.                                                                *)
(***************************************************************************)
UsageReply(h) ==
    IF h = "home"
    THEN [status |-> 200, kind |-> "json", keys |-> {"message", "usage", "example"},
          msg |-> <<>>]
    ELSE IF h = "mediainfo_api"
    THEN [status |-> 200, kind |-> "json",
          keys |-> {"message", "status", "usage", "examples", "note"}, msg |-> <<>>]
    ELSE [status |-> 400, kind |-> "json", keys |-> {"error"},
          msg |-> <<"URL", "parameter", "is", "required">>]

SuccessReply(v, f) ==
    IF IsJson(v, f)
    THEN [status |-> 200, kind |-> "json",
          keys |-> IF v = "app" THEN {"filename", "file_size", "tracks", "api_version"}
                   ELSE {"filename", "file_size", "tracks"},
          msg |-> <<>>]
    ELSE [status |-> 200, kind |-> "text", keys |-> {}, msg |-> <<>>]

\* The file size the result shows: "file_size" of the JSON document, the
\* "File size" line of the General section of the text report (none when
\* nothing is shown).  track_file_size is the file_size of the General
\* track, the size of the file the extractor parsed.  index.py converts the
\* header with int() first.
NoFileSize == [shown |-> FALSE, text |-> <<>>]
FileSize(text) == [shown |-> TRUE, text |-> text]
file_size_shown(v, json, clen, track_file_size) ==
    IF v = "app"
    THEN IF json
         THEN (IF Falsy(clen) THEN FileSize(Unknown)
               ELSE FileSize(get_readable_bytes(PyStr(clen.s)).text))
         ELSE LET file_size == IF Falsy(clen) THEN PyInt(track_file_size)
                               ELSE PyStr(clen.s)
              IN  IF Truthy(file_size) THEN FileSize(get_readable_bytes(file_size).text)
                  ELSE NoFileSize
    ELSE IF Falsy(clen)
         THEN (IF json THEN FileSize(Unknown) ELSE NoFileSize)
         ELSE FileSize(index_get_readable_bytes(
                           PyInt(ToInt(PyStr(clen.s)).n)).text)

\* The handler's result on success.
Presented(v, f, clen, track_file_size) ==
    [status |-> SuccessReply(v, f).status,
     kind |-> SuccessReply(v, f).kind,
     keys |-> SuccessReply(v, f).keys,
     msg |-> SuccessReply(v, f).msg,
     file_size |-> file_size_shown(v, IsJson(v, f), clen, track_file_size)]

\* download_sample's except clause: raise Exception(f"Download failed: {str(e)}")
download_sample_except(msg) == <<"Download", "failed:">> \o msg

\* The handler's outer except clause.
handler_except_uncaught(v, msg) ==
    [status |-> 500, kind |-> "fault", keys |-> {}, msg |-> msg]
handler_except(v, msg) ==
    IF v = "app"
    THEN [status |-> 500, kind |-> "json", keys |-> {"error", "url"},
          msg |-> <<"Processing", "failed:">> \o msg]
    ELSE [status |-> 500, kind |-> "json", keys |-> {"error"}, msg |-> msg]

InvalidSourceMsg(v) ==
    IF v = "app" THEN <<"Could", "not", "extract", "Google", "Drive", "file", "ID">>
    ELSE <<"Invalid", "Google", "Drive", "URL">>
AllFailedMsg ==
    <<"All", "Google", "Drive", "download", "methods", "failed", "-", "file", "may",
      "be", "private", "or", "restricted">>

\* response.raise_for_status(): raises for 4xx and 5xx.
raise_for_status_never(status) == FALSE
raise_for_status_5xx(status) == status >= 500 /\ status < 600
raise_for_status(status) == status >= 400 /\ status < 600

\* app.py, inside the candidate loop: 'text/html' in content_type and status != 200
html_error_page(resp) == resp.html /\ resp.status # 200

(***************************************************************************)
(* The initial state: no request has arrived, the temp directory is empty. *)
(***************************************************************************)
ReqInit ==
    /\ pc = [r \in Reqs |-> "idle"]
    /\ via = [r \in Reqs |-> "http"]
    /\ handler = [r \in Reqs |-> "none"]
    /\ url = [r \in Reqs |-> NoneStr]
    /\ fmt = [r \in Reqs |-> NoneStr]
    /\ cand = [r \in Reqs |-> 0]
    /\ attempts = [r \in Reqs |-> <<>>]
    /\ response = [r \in Reqs |-> NoResponse]
    /\ temp_file = [r \in Reqs |-> 0]
    /\ downloaded = [r \in Reqs |-> 0]
    /\ temp_path = [r \in Reqs |-> 0]
    /\ content_length = [r \in Reqs |-> NoneStr]
    /\ exc = [r \in Reqs |-> NoExc]
    /\ retval = [r \in Reqs |-> NoReply]
    /\ reply = [r \in Reqs |-> NoReply]
    /\ failure = [r \in Reqs |-> "none"]
    /\ unlinkFailed = [r \in Reqs |-> FALSE]

PureIdle ==
    /\ fn = "none"
    /\ arg = <<>>
    /\ out = <<>>

Init ==
    /\ variant \in {"app", "index"}
    /\ fs = [n \in Names |-> NoFile]
    /\ ReqInit
    /\ PureIdle

(***************************************************************************)
(* download_sample fails: its except clause wraps the exception, which     *)
(* leaves the handler through the outer except clause (the call is outside *)
(* the inner try/finally, temp_path is not assigned and nothing is         *)
(* unlinked).                                                              *)
(***************************************************************************)
DownloadFails(r, step, msg) ==
    /\ failure' = [failure EXCEPT ![r] = step]
    /\ reply' = [reply EXCEPT ![r] = handler_except(variant, download_sample_except(msg))]
    /\ pc' = [pc EXCEPT ![r] = "done"]

\* A request arrives: through the framework's routing, or (index.py, whose
\* routing never reaches get_mediainfo) as a call of the view function.
Receive(r) ==
    /\ pc[r] = "idle"
    /\ \E w \in {"http", "call"}, u \in UrlParams, f \in FmtParams :
          /\ w = "call" => variant = "index"
          /\ via' = [via EXCEPT ![r] = w]
          /\ handler' = [handler EXCEPT ![r] =
                            IF w = "http" THEN dispatch(variant) ELSE "get_mediainfo"]
          /\ url' = [url EXCEPT ![r] = u]
          /\ fmt' = [fmt EXCEPT ![r] = f]
    /\ pc' = [pc EXCEPT ![r] = "handler"]
    /\ UNCHANGED <<variant, fs, cand, attempts, response, temp_file, downloaded,
                   temp_path, content_length, exc, retval, reply, failure,
                   unlinkFailed, pureVars>>

\* The view function starts: home answers at once; the analysis handlers
\* answer at once when url is missing or empty.
Enter(r) ==
    /\ pc[r] = "handler"
    /\ IF handler[r] = "home" \/ Falsy(url[r])
       THEN /\ reply' = [reply EXCEPT ![r] = UsageReply(handler[r])]
            /\ pc' = [pc EXCEPT ![r] = "done"]
       ELSE /\ pc' = [pc EXCEPT ![r] = "ds_resolve"]
            /\ UNCHANGED reply
    /\ UNCHANGED <<variant, fs, via, handler, url, fmt, cand, attempts, response,
                   temp_file, downloaded, temp_path, content_length, exc, retval,
                   failure, unlinkFailed, pureVars>>

\* download_sample, up to the first request: the Source Resolver.
Resolve(r) ==
    /\ pc[r] = "ds_resolve"
    /\ IF is_gdrive_url(url[r].s) /\ Falsy(extract_gdrive_id(url[r].s))
       THEN /\ DownloadFails(r, "resolve", InvalidSourceMsg(variant))
            /\ UNCHANGED cand
       ELSE /\ pc' = [pc EXCEPT ![r] = "ds_get"]
            /\ cand' = [cand EXCEPT ![r] = 1]
            /\ UNCHANGED <<failure, reply>>
    /\ UNCHANGED <<variant, fs, via, handler, url, fmt, attempts, response,
                   temp_file, downloaded, temp_path, content_length, exc, retval,
                   unlinkFailed, pureVars>>

\* The URL the next GET goes to.
target_url_any_id(v, u, k) ==
    IF ~Falsy(extract_gdrive_id(u))
    THEN (IF v = "app" THEN gdrive_methods(extract_gdrive_id(u).s)[k]
          ELSE gdrive_download_url(extract_gdrive_id(u).s))
    ELSE u
target_url(v, u, k) ==
    IF is_gdrive_url(u)
    THEN (IF v = "app" THEN gdrive_methods(extract_gdrive_id(u).s)[k]
          ELSE gdrive_download_url(extract_gdrive_id(u).s))
    ELSE u

InLoop(v, u) == v = "app" /\ is_gdrive_url(u)

Attempt(u, raised, st, h) == [url |-> u, raised |-> raised, status |-> st, html |-> h]

\* requests.get raises (DNS, connection, timeout, TLS).
GetRaises(r) ==
    /\ pc[r] = "ds_get"
    /\ LET u == target_url(variant, url[r].s, cand[r])
       IN  attempts' = [attempts EXCEPT ![r] = Append(@, Attempt(u, TRUE, 0, FALSE))]
    /\ IF InLoop(variant, url[r].s)
       THEN IF cand[r] < Len(gdrive_methods(<<>>))
            THEN /\ cand' = [cand EXCEPT ![r] = @ + 1]
                 /\ UNCHANGED <<pc, failure, reply>>
            ELSE /\ DownloadFails(r, "all_sources", AllFailedMsg)
                 /\ UNCHANGED cand
       ELSE /\ DownloadFails(r, "request", <<"ConnectionError">>)
            /\ UNCHANGED cand
    /\ UNCHANGED <<variant, fs, via, handler, url, fmt, response, temp_file,
                   downloaded, temp_path, content_length, exc, retval,
                   unlinkFailed, pureVars>>

\* requests.get returns a response; the status checks that follow it.
GetReturns(r) ==
    /\ pc[r] = "ds_get"
    /\ \E st \in Statuses, h \in BOOLEAN, cl \in ContentLengths :
         LET u == target_url(variant, url[r].s, cand[r])
             resp == [bound |-> TRUE, url |-> u, status |-> st, html |-> h, clen |-> cl]
             rejected == IF InLoop(variant, url[r].s)
                         THEN html_error_page(resp) \/ raise_for_status(st)
                         ELSE raise_for_status(st)
         IN  /\ attempts' = [attempts EXCEPT ![r] = Append(@, Attempt(u, FALSE, st, h))]
             /\ response' = [response EXCEPT ![r] = resp]
             /\ IF ~rejected
                THEN /\ pc' = [pc EXCEPT ![r] = "ds_create"]
                     /\ UNCHANGED <<cand, failure, reply>>
                ELSE IF InLoop(variant, url[r].s)
                THEN IF cand[r] < Len(gdrive_methods(<<>>))
                     THEN /\ cand' = [cand EXCEPT ![r] = @ + 1]
                          /\ UNCHANGED <<pc, failure, reply>>
                     ELSE /\ DownloadFails(r, "all_sources", AllFailedMsg)
                          /\ UNCHANGED cand
                ELSE /\ DownloadFails(r, "status", <<"HTTPError">>)
                     /\ UNCHANGED cand
    /\ UNCHANGED <<variant, fs, via, handler, url, fmt, temp_file, downloaded,
                   temp_path, content_length, exc, retval, unlinkFailed, pureVars>>

\* tempfile.NamedTemporaryFile(delete=False): a new file under a name no
\* existing file has; downloaded = 0.
CreateTemp(r) ==
    /\ pc[r] = "ds_create"
    /\ \E n \in Names :
          /\ ~fs[n].exists
          /\ fs' = [fs EXCEPT ![n] = [exists |-> TRUE, size |-> 0, owner |-> r]]
          /\ temp_file' = [temp_file EXCEPT ![r] = n]
    /\ downloaded' = [downloaded EXCEPT ![r] = 0]
    /\ pc' = [pc EXCEPT ![r] = "ds_read"]
    /\ UNCHANGED <<variant, via, handler, url, fmt, cand, attempts, response,
                   temp_path, content_length, exc, retval, reply, failure,
                   unlinkFailed, pureVars>>

\* NamedTemporaryFile raises (no usable temp directory, no space).
CreateRaises(r) ==
    /\ pc[r] = "ds_create"
    /\ DownloadFails(r, "create", <<"OSError">>)
    /\ UNCHANGED <<variant, fs, via, handler, url, fmt, cand, attempts, response,
                   temp_file, downloaded, temp_path, content_length, exc, retval,
                   unlinkFailed, pureVars>>

\* The loop's exit test after a chunk was written.
loop_breaks(d, max_size) == d >= max_size

\* One iteration of the loop over response.iter_content(chunk_size): a chunk
\* of any length up to chunk_size; an empty chunk is skipped.
ReadChunk(r) ==
    /\ pc[r] = "ds_read"
    /\ \E len \in 0..ChunkSize :
          IF len = 0
          THEN UNCHANGED <<fs, downloaded, pc>>
          ELSE /\ fs' = [fs EXCEPT ![temp_file[r]].size = @ + len]
               /\ downloaded' = [downloaded EXCEPT ![r] = @ + len]
               /\ pc' = [pc EXCEPT ![r] =
                            IF loop_breaks(downloaded[r] + len, MaxSize)
                            THEN "ds_close" ELSE "ds_read"]
    /\ UNCHANGED <<variant, via, handler, url, fmt, cand, attempts, response,
                   temp_file, temp_path, content_length, exc, retval, reply,
                   failure, unlinkFailed, pureVars>>

\* The body ends before max_size bytes were read.
ReadEnd(r) ==
    /\ pc[r] = "ds_read"
    /\ pc' = [pc EXCEPT ![r] = "ds_close"]
    /\ UNCHANGED <<variant, fs, via, handler, url, fmt, cand, attempts, response,
                   temp_file, downloaded, temp_path, content_length, exc, retval,
                   reply, failure, unlinkFailed, pureVars>>

\* Reading the next chunk (or writing it) raises: download_sample's except
\* clause re-raises, and no statement of that path removes the file.
ReadRaises(r) ==
    /\ pc[r] = "ds_read"
    /\ DownloadFails(r, "stream", <<"ChunkedEncodingError">>)
    /\ UNCHANGED <<variant, fs, via, handler, url, fmt, cand, attempts, response,
                   temp_file, downloaded, temp_path, content_length, exc, retval,
                   unlinkFailed, pureVars>>

\* temp_file.close(); return temp_file.name, response.headers.get('content-length')
\* and the handler's assignment of the pair.
CloseReturn(r) ==
    /\ pc[r] = "ds_close"
    /\ temp_path' = [temp_path EXCEPT ![r] = temp_file[r]]
    /\ content_length' = [content_length EXCEPT ![r] = response[r].clen]
    /\ pc' = [pc EXCEPT ![r] = "parse"]
    /\ UNCHANGED <<variant, fs, via, handler, url, fmt, cand, attempts, response,
                   temp_file, downloaded, exc, retval, reply, failure,
                   unlinkFailed, pureVars>>

\* MediaInfo.parse(temp_path), the external extractor: returns or raises.
Parse(r) ==
    /\ pc[r] = "parse"
    /\ \E ok \in BOOLEAN :
          IF ok
          THEN /\ pc' = [pc EXCEPT ![r] = "render"]
               /\ UNCHANGED <<exc, failure>>
          ELSE /\ exc' = [exc EXCEPT ![r] = [raised |-> TRUE, msg |-> <<"ParseError">>]]
               /\ failure' = [failure EXCEPT ![r] = "extract"]
               /\ pc' = [pc EXCEPT ![r] = "finally"]
    /\ UNCHANGED <<variant, fs, via, handler, url, fmt, cand, attempts, response,
                   temp_file, downloaded, temp_path, content_length, retval, reply,
                   unlinkFailed, pureVars>>

\* The Presenter: builds the JSON document or the text report, or raises on
\* a field value it cannot convert.
Render(r) ==
    /\ pc[r] = "render"
    /\ \E ok \in BOOLEAN :
          IF ok
          THEN /\ retval' = [retval EXCEPT ![r] =
                                 Presented(variant, fmt[r], content_length[r],
                                           fs[temp_path[r]].size)]
               /\ UNCHANGED <<exc, failure>>
          ELSE /\ exc' = [exc EXCEPT ![r] = [raised |-> TRUE, msg |-> <<"ValueError">>]]
               /\ failure' = [failure EXCEPT ![r] = "present"]
               /\ UNCHANGED retval
    /\ pc' = [pc EXCEPT ![r] = "finally"]
    /\ UNCHANGED <<variant, fs, via, handler, url, fmt, cand, attempts, response,
                   temp_file, downloaded, temp_path, content_length, reply,
                   unlinkFailed, pureVars>>

\* What leaves the handler after the finally clause: the outer except
\* clause's envelope for an exception in flight, else the try body's value.
after_finally(v, e, rv) == IF e.raised THEN handler_except(v, e.msg) ELSE rv

\* The finally clause: os.unlink(temp_path) inside try/except: pass.
Finally(r) ==
    /\ pc[r] = "finally"
    /\ \E ok \in BOOLEAN :
          IF ok
          THEN /\ fs' = [fs EXCEPT ![temp_path[r]] = NoFile]
               /\ UNCHANGED unlinkFailed
          ELSE /\ unlinkFailed' = [unlinkFailed EXCEPT ![r] = TRUE]
               /\ UNCHANGED fs
    /\ reply' = [reply EXCEPT ![r] = after_finally(variant, exc[r], retval[r])]
    /\ pc' = [pc EXCEPT ![r] = "done"]
    /\ UNCHANGED <<variant, via, handler, url, fmt, cand, attempts, response,
                   temp_file, downloaded, temp_path, content_length, exc, retval,
                   failure, pureVars>>

Serve(r) ==
    \/ Receive(r)
    \/ Enter(r)
    \/ Resolve(r)
    \/ GetRaises(r)
    \/ GetReturns(r)
    \/ CreateTemp(r)
    \/ CreateRaises(r)
    \/ ReadChunk(r)
    \/ ReadEnd(r)
    \/ ReadRaises(r)
    \/ CloseReturn(r)
    \/ Parse(r)
    \/ Render(r)
    \/ Finally(r)

Next == \E r \in Solo : Serve(r)

Spec == Init /\ [][Next]_vars

(***************************************************************************)
(* The Source Resolver as a pure function: extract_gdrive_id and the       *)
(* candidate list are applied to one URL drawn from a bounded set.         *)
(***************************************************************************)
IdAlphabet == {"a", "Z", "0", "-", "_"}
Ids == UNION {[1..n -> IdAlphabet] : n \in 1..MaxIdLen}

\* URLs of the form <prefix>/file/d/<ID>/<rest>; the prefix has no /file/d/.
FilePrefixes == {Https \o DriveHost,
                 Https \o DocsHost \o <<"/","x","?">> \o PatId \o <<"W">>}
FileRests == {<<"/">>, <<"/","v","i","e","w">>,
              <<"/","v","?">> \o PatId \o <<"q","7">>}
FileUrlArgs ==
    {[url |-> pre \o PatFileD \o id \o rest, id |-> id] :
        pre \in FilePrefixes, id \in Ids, rest \in FileRests}

\* The candidate URLs of a file id, per variant.
candidates(v, file_id) ==
    IF v = "app" THEN gdrive_methods(file_id) ELSE <<gdrive_download_url(file_id)>>

NoResolved == [id |-> NoneStr, cands |-> <<>>]

InitResolve ==
    /\ variant \in {"app", "index"}
    /\ fs = [n \in Names |-> NoFile]
    /\ ReqInit
    /\ fn = "none"
    /\ arg \in FileUrlArgs
    /\ out = NoResolved

ExtractId ==
    /\ fn = "none"
    /\ is_gdrive_url(arg.url)
    /\ fn' = "extract_gdrive_id"
    /\ out' = [out EXCEPT !.id = extract_gdrive_id(arg.url)]
    /\ UNCHANGED <<variant, fs, reqVars, arg>>

BuildCandidates ==
    /\ fn = "extract_gdrive_id"
    /\ ~Falsy(out.id)
    /\ fn' = "candidates"
    /\ out' = [out EXCEPT !.cands = candidates(variant, out.id.s)]
    /\ UNCHANGED <<variant, fs, reqVars, arg>>

NextResolve == ExtractId \/ BuildCandidates

SpecResolve == InitResolve /\ [][NextResolve]_vars

(***************************************************************************)
(* The conversion functions as pure functions: one function of the running *)
(* variant is applied to one value drawn from a bounded set.               *)
(***************************************************************************)
FmtInts == {-5, 0, 5, 999, 1000, 1024, 1280, 1536, 1920, 2560, 60000, 1048576,
            3600000, 3605000, 3725000}
FmtFloats == {-1500, 0, 500, 23976, 25000, 29970, 999600}
FmtStrs == {<<>>, <<"0">>, <<"1","2">>, <<"-","3">>, <<"a","b","c">>,
            <<"1",".","5">>, <<" ","7"," ">>}
FmtInputs ==
    {PyNone, PyBool(TRUE), PyBool(FALSE)}
    \cup {PyInt(k) : k \in FmtInts}
    \cup {PyFloat(m) : m \in FmtFloats}
    \cup {PyStr(cs) : cs \in FmtStrs}

InitFmt ==
    /\ variant \in {"app", "index"}
    /\ fs = [n \in Names |-> NoFile]
    /\ ReqInit
    /\ fn = "none"
    /\ arg \in FmtInputs
    /\ out = Returns(<<>>)

Apply(v, name, result) ==
    /\ fn = "none"
    /\ variant = v
    /\ fn' = name
    /\ out' = result
    /\ UNCHANGED <<variant, fs, reqVars, arg>>

ApplyBytes == Apply("app", "get_readable_bytes", get_readable_bytes(arg))
ApplyBitrate == Apply("app", "get_readable_bitrate", get_readable_bitrate(arg))
ApplyDuration == Apply("app", "format_duration", format_duration(arg))
ApplyFrameRate == Apply("app", "format_frame_rate", format_frame_rate(arg))
ApplyPixels ==
    Apply("app", "format_pixel_dimensions", format_pixel_dimensions(arg, PyInt(1080)))
ApplyIndexBytes == Apply("index", "get_readable_bytes", index_get_readable_bytes(arg))
ApplyIndexBitrate ==
    Apply("index", "get_readable_bitrate", index_get_readable_bitrate(arg))

NextFmt ==
    \/ ApplyBytes
    \/ ApplyBitrate
    \/ ApplyDuration
    \/ ApplyFrameRate
    \/ ApplyPixels
    \/ ApplyIndexBytes
    \/ ApplyIndexBitrate

SpecFmt == InitFmt /\ [][NextFmt]_vars

(***************************************************************************)
(* Properties.                                                             *)
(***************************************************************************)
\* The request carries a url and is served by an analysis handler.
Analysis(r) ==
    /\ handler[r] \in {"mediainfo_api", "get_mediainfo"}
    /\ ~url[r].isNone
    /\ url[r].s # <<>>

Owns(r, n) == fs[n].exists /\ fs[n].owner = r
HasArtifact(r) == \E n \in Names : Owns(r, n)
HasHost(u) == Contains(u, DriveHost) \/ Contains(u, DocsHost)
ContainsFailed(msg) == \E i \in 1..Len(msg) : msg[i] \in {"failed", "failed:"}
Started(r) == pc[r] \notin {"idle", "handler", "ds_resolve"}

\* C1: when the handler of a request that carries a url returns, no temporary
\* artifact that the request created exists -- stated here for the requests
\* whose os.unlink, where it ran, did not fail, which covers the case of a
\* chunk read that raises after the file was created.
C1_NoArtifactAtReturn ==
    \A r \in Reqs :
        (pc[r] = "done" /\ Analysis(r) /\ ~unlinkFailed[r]) => ~HasArtifact(r)

\* C2: the bytes download_sample has written to the artifact never exceed
\* max_size, during the loop and at its return.
C2_SampleWithinMaxSize ==
    /\ \A n \in Names : fs[n].exists => fs[n].size <= MaxSize
    /\ \A r \in Reqs : downloaded[r] <= MaxSize

\* The steps of download_sample whose failure is a download failure.
DownloadFailures == {"resolve", "request", "status", "all_sources", "create", "stream"}

\* Some step of the request failed, recovered from or not.
AnyStepFailed(r) ==
    \/ failure[r] # "none"
    \/ unlinkFailed[r]
    \/ \E i \in 1..Len(attempts[r]) : attempts[r][i].raised

\* C3 as stated: whatever step fails (a network request and the deletion of
\* the artifact included), the response has status 500 and an "error" key.
C3_AnyFailureIs500 ==
    \A r \in Reqs :
        (pc[r] = "done" /\ Analysis(r) /\ AnyStepFailed(r))
            => (reply[r].status = 500 /\ "error" \in reply[r].keys)

\* C3 amended: the handler always returns a response of its own; a failure
\* that ends the pipeline gives status 500 and a JSON object with an "error"
\* key, whose message contains "failed" when the download failed; a request
\* that fails on a candidate a later candidate makes up for, and a deletion
\* that fails, are swallowed and leave the response as it is without them.
C3_FailureEnvelope ==
    \A r \in Reqs :
        (pc[r] = "done" /\ Analysis(r)) =>
            /\ reply[r].kind \in {"json", "text"}
            /\ failure[r] # "none" =>
                  /\ reply[r].status = 500
                  /\ reply[r].kind = "json"
                  /\ "error" \in reply[r].keys
            /\ failure[r] \in DownloadFailures => ContainsFailed(reply[r].msg)
            /\ failure[r] = "none" =>
                  /\ reply[r].status = 200
                  /\ "error" \notin reply[r].keys

\* C3's case: the presenter failed and then the deletion failed too.
C3_Witness ==
    \E r \in Reqs :
        /\ pc[r] = "done"
        /\ Analysis(r)
        /\ failure[r] = "present"
        /\ unlinkFailed[r]
        /\ reply[r].status = 500

\* The candidate policy of app.py's loop, for a rejection rule Rej.
CandidatePolicy(Rej(_)) ==
    \A r \in Reqs :
        (/\ variant = "app"
         /\ Analysis(r)
         /\ HasHost(url[r].s)
         /\ \E k \in 1..Len(patterns) : MatchStarts(patterns[k], url[r].s) # {}
         /\ Started(r)) =>
            LET a == attempts[r]
                n == Len(a)
                M == gdrive_methods(extract_gdrive_id(url[r].s).s)
            IN  /\ n <= Len(M)
                /\ \A i \in 1..n : a[i].url = M[i]
                /\ \A i \in 1..(n - 1) : Rej(a[i])
                /\ pc[r] = "ds_get" => /\ cand[r] = n + 1
                                       /\ \A i \in 1..n : Rej(a[i])
                /\ failure[r] = "all_sources" =>
                      /\ n = Len(M)
                      /\ \A i \in 1..n : Rej(a[i])
                      /\ pc[r] = "done"
                      /\ reply[r].status = 500
                      /\ Contains(reply[r].msg, AllFailedMsg)
                      /\ temp_file[r] = 0
                      /\ ~HasArtifact(r)
                /\ (pc[r] # "ds_get" /\ failure[r] # "all_sources") =>
                      /\ n >= 1
                      /\ ~Rej(a[n])
                      /\ response[r].bound
                      /\ response[r].url = a[n].url
                      /\ response[r].status = a[n].status

RejectedAsClaimed(a) == a.raised \/ (a.status >= 400 /\ a.html)
RejectedAsCoded(a) == a.raised \/ (a.html /\ a.status # 200) \/ a.status >= 400

\* C4 as stated: a candidate is rejected exactly when its request raises or
\* its response has an unsuccessful status together with an HTML content type.
C4_RejectedOnlyHtmlError == CandidatePolicy(RejectedAsClaimed)

\* C4 amended: the candidates are requested in list order; a candidate is
\* rejected exactly when its request raises, or its content type is HTML and
\* its status is not 200, or its status is an error status (400 or above,
\* whatever the content type); the first candidate not rejected is the one
\* sampled and no later one is requested; when all are rejected the download
\* fails with the 'All Google Drive download methods failed' error and no
\* artifact is created.
C4_CandidatePolicy == CandidatePolicy(RejectedAsCoded)

\* C4's case: the first candidate answered 404 without HTML, the second was
\* accepted and is being sampled.
C4_Witness ==
    \E r \in Reqs :
        /\ variant = "app"
        /\ pc[r] = "ds_read"
        /\ Len(attempts[r]) = 2
        /\ attempts[r][1].status = 404
        /\ ~attempts[r][1].html
        /\ downloaded[r] > 0

\* C5: an indirection URL that no pattern rule matches fails with the
\* invalid-source error, before any request is issued or artifact created.
C5_InvalidSourceFailsFirst ==
    \A r \in Reqs :
        (/\ Analysis(r)
         /\ HasHost(url[r].s)
         /\ \A k \in 1..Len(patterns) : MatchStarts(patterns[k], url[r].s) = {}) =>
            /\ attempts[r] = <<>>
            /\ temp_file[r] = 0
            /\ ~HasArtifact(r)
            /\ Started(r) =>
                  /\ pc[r] = "done"
                  /\ failure[r] = "resolve"
                  /\ reply[r].status = 500
                  /\ "error" \in reply[r].keys
                  /\ Contains(reply[r].msg, InvalidSourceMsg(variant))

\* C5's case: a docs.google.com URL with an empty id was refused.
C5_Witness ==
    \E r \in Reqs :
        /\ pc[r] = "done"
        /\ url[r] = Str(U_emptyid)
        /\ failure[r] = "resolve"

\* C6: for a URL <prefix>/file/d/<ID>/<rest>, extract_gdrive_id returns
\* exactly <ID>, also when the URL holds an id=<other> part, and every
\* candidate download URL built from it contains <ID>.
C6_FileIdExtracted ==
    /\ fn # "none" => out.id = Str(arg.id)
    /\ fn = "candidates" =>
          /\ Len(out.cands) >= 1
          /\ \A i \in 1..Len(out.cands) : Contains(out.cands[i], arg.id)

\* C6's case: a URL that also holds id=q7 and, before /file/d/, id=W.
C6_Witness ==
    /\ fn = "candidates"
    /\ variant = "app"
    /\ Len(out.cands) = 3
    /\ Contains(arg.url, PatId \o <<"q","7">>)
    /\ Contains(arg.url, PatId \o <<"W">>)

\* C7: for a URL with neither host substring, download_sample issues exactly
\* one GET, to the input URL unchanged.
C7_DirectUrlUnchanged ==
    \A r \in Reqs :
        (Analysis(r) /\ ~HasHost(url[r].s)) =>
            /\ Len(attempts[r]) <= 1
            /\ \A i \in 1..Len(attempts[r]) : attempts[r][i].url = url[r].s
            /\ (Started(r) /\ pc[r] # "ds_get") => Len(attempts[r]) = 1

\* C7's case: a URL whose path looks like a Drive path, on another host.
C7_Witness ==
    \E r \in Reqs :
        /\ url[r] = Str(U_lookalike)
        /\ pc[r] = "done"
        /\ Len(attempts[r]) = 1

\* C8: a request without url (absent or empty) gets status 400 or 200 and a
\* JSON body with a 'usage' or an 'error' key; it issues no request and
\* creates no artifact.
C8_MissingUrl ==
    \A r \in Reqs :
        (pc[r] # "idle" /\ (url[r].isNone \/ url[r].s = <<>>)) =>
            /\ pc[r] \in {"handler", "done"}
            /\ attempts[r] = <<>>
            /\ temp_file[r] = 0
            /\ ~HasArtifact(r)
            /\ pc[r] = "done" =>
                  /\ reply[r].status \in {200, 400}
                  /\ reply[r].kind = "json"
                  /\ reply[r].keys \cap {"usage", "error"} # {}

\* C8's case: get_mediainfo answered an empty url with 400.
C8_Witness ==
    \E r \in Reqs :
        /\ pc[r] = "done"
        /\ url[r] = Str(<<>>)
        /\ reply[r].status = 400

\* C9: in the index.py variant, GET / with a non-empty url is served by
\* get_mediainfo, not by home's usage document.
C9_UrlReachesAnalysis ==
    \A r \in Reqs :
        (/\ variant = "index"
         /\ via[r] = "http"
         /\ pc[r] = "done"
         /\ ~url[r].isNone
         /\ url[r].s # <<>>) =>
            /\ handler[r] = "get_mediainfo"
            /\ "usage" \notin reply[r].keys

\* The inputs C10 names: null or missing (None), zero, negative, non-numeric.
Degenerate(v) ==
    \/ v.t = "None"
    \/ IsNumber(v) /\ v.n <= 0
    \/ v.t = "str" /\ ~ParseFloat(v.s).ok

\* C10: every conversion function returns "Unknown" (get_readable_bytes:
\* "0B" on zero) for a null, zero, negative, non-numeric or missing input,
\* and never raises.
C10_ConversionsTotal ==
    (fn # "none" /\ Degenerate(arg)) =>
        /\ ~out.raised
        /\ out.text = IF fn = "get_readable_bytes" /\ EqualsZero(arg)
                      THEN ZeroB ELSE Unknown

\* The unit a rendered size ends with: the text after its last blank.
RenderedUnit(text) ==
    LET blanks == {i \in 1..Len(text) : text[i] = " "}
        last == IF blanks = {} THEN 0 ELSE CHOOSE i \in blanks : \A j \in blanks : j <= i
    IN  SubSeq(text, last + 1, Len(text))

\* The unit of {B, KB, MB, GB, TB} for which n (0 < n < 2^31), scaled in
\* base 1024, is at least 1 and below 1024.
UnitBase == <<1, KiB, MiB, GiB>>
ClaimedUnit(n) ==
    LET i == CHOOSE k \in 1..4 :
                 UnitBase[k] <= n /\ (k = 4 \/ n < UnitBase[k + 1])
    IN  size_names[i]

\* C11: get_readable_bytes returns "0B" for the byte count 0, "Unknown" for
\* None, and for a positive integer count renders the unit of {B, KB, MB,
\* GB, TB} for which the count scaled in base 1024 is >= 1 and < 1024.
C11_ReadableBytesUnit ==
    fn = "get_readable_bytes" =>
        /\ (arg.t = "int" /\ arg.n = 0) => out = Returns(ZeroB)
        /\ arg.t = "None" => out = Returns(Unknown)
        /\ (arg.t = "int" /\ arg.n > 0) =>
              /\ ~out.raised
              /\ RenderedUnit(out.text) = ClaimedUnit(arg.n)

\* The number a rendered value starts with: the text before its last blank.
RenderedNumber(text) ==
    LET blanks == {i \in 1..Len(text) : text[i] = " "}
        last == IF blanks = {} THEN Len(text) + 1
                ELSE CHOOSE i \in blanks : \A j \in blanks : j <= i
    IN  ParseFloat(SubSeq(text, 1, last - 1))

\* a <= b for two floats given as sign and magnitude.
FltLeq(a, b) ==
    LET zero(x) == x.w = 0 /\ x.f = 0
        magLeq(x, y) == x.w < y.w \/ (x.w = y.w /\ x.f <= y.f)
    IN  CASE a.neg /\ ~b.neg -> TRUE
          [] ~a.neg /\ b.neg -> zero(a) /\ zero(b)
          [] ~a.neg /\ ~b.neg -> magLeq(a, b)
          [] OTHER -> magLeq(b, a)

\* The band of a bitrate: 1 below 1000, 2 from 1000 and below 1,000,000,
\* 3 from 1,000,000.
Band(x) == IF x.neg \/ x.w < 1000 THEN 1 ELSE IF x.w < 1000000 THEN 2 ELSE 3
BandSuffix == << <<"b","p","s">>, <<"K","b","p","s">>, <<"M","b","p","s">> >>

\* get_readable_bitrate of the variant v.
BitrateOf(v, a) ==
    IF v = "app" THEN get_readable_bitrate(a) ELSE index_get_readable_bitrate(a)

Bitrates == {a \in FmtInputs : a.t \in {"int", "float"}}

\* C12: for a bitrate b, get_readable_bitrate renders the suffix "bps" when
\* b < 1000, "Kbps" when 1000 <= b < 1,000,000 and "Mbps" from 1,000,000 on,
\* and within one band a larger b never renders a smaller number.
C12_BitrateBands ==
    (fn = "get_readable_bitrate" /\ arg \in Bitrates) =>
        /\ ~out.raised
        /\ RenderedUnit(out.text) = BandSuffix[Band(ToFloat(arg))]
        /\ \A b \in Bitrates :
              (/\ Band(ToFloat(b)) = Band(ToFloat(arg))
               /\ FltLeq(ToFloat(arg), ToFloat(b))) =>
                  LET more == BitrateOf(variant, b)
                  IN  /\ ~more.raised
                      /\ RenderedNumber(more.text).ok
                      /\ RenderedNumber(out.text).ok
                      /\ FltLeq(RenderedNumber(out.text), RenderedNumber(more.text))

\* A text split at its blanks.
RECURSIVE Tokens(_)
Tokens(text) ==
    LET blanks == {i \in 1..Len(text) : text[i] = " "}
    IN  IF blanks = {} THEN (IF text = <<>> THEN <<>> ELSE <<text>>)
        ELSE LET i == Min(blanks)
                 rest == Tokens(SubSeq(text, i + 1, Len(text)))
             IN  IF i = 1 THEN rest ELSE <<SubSeq(text, 1, i - 1)>> \o rest

\* The component a rendered duration shows for a unit ("h", "min", "s").
Shown(text, unit) ==
    LET tk == Tokens(text)
        at == {i \in 1..(Len(tk) - 1) : IsDigits(tk[i]) /\ tk[i + 1] = unit}
    IN  IF at = {} THEN [shown |-> FALSE, n |-> 0]
        ELSE [shown |-> TRUE, n |-> DigitsVal(tk[Min(at)])]

UnitH == <<"h">>
UnitMin == <<"m","i","n">>
UnitS == <<"s">>

\* The decomposition of ms milliseconds by integer division.
Division(ms) ==
    [hours |-> ms \div 3600000,
     minutes |-> (ms \div 60000) % 60,
     seconds |-> (ms \div 1000) % 60]

\* C13 as stated: for a whole number of milliseconds, the components
\* format_duration works with are those of the integer division, and the
\* rendered string determines the same hours, minutes and seconds (a
\* component the string does not show reads as 0).
C13_DurationRoundTrip ==
    (fn = "format_duration" /\ arg.t = "int" /\ arg.n >= 0) =>
        /\ duration_parts(ToFloat(arg)) = Division(arg.n)
        /\ ~out.raised
        /\ [hours |-> Shown(out.text, UnitH).n,
            minutes |-> Shown(out.text, UnitMin).n,
            seconds |-> Shown(out.text, UnitS).n] = Division(arg.n)

\* C13 amended: for a whole number of milliseconds other than 0, the
\* components format_duration works with are those of the integer division;
\* the rendered string shows the hours only when they are positive, the
\* minutes only when they are positive, and the seconds only when the hours
\* are not positive and either the minutes are not positive or the seconds
\* are; every component shown is the division's.  0 renders "Unknown".
C13_DurationParts ==
    (fn = "format_duration" /\ arg.t = "int") =>
        IF arg.n = 0 THEN out = Returns(Unknown)
        ELSE LET d == Division(arg.n)
                 h == Shown(out.text, UnitH)
                 m == Shown(out.text, UnitMin)
                 sec == Shown(out.text, UnitS)
             IN  /\ duration_parts(ToFloat(arg)) = d
                 /\ ~out.raised
                 /\ h.shown <=> d.hours > 0
                 /\ m.shown <=> d.minutes > 0
                 /\ sec.shown <=> (d.hours <= 0 /\ (d.minutes <= 0 \/ d.seconds > 0))
                 /\ h.shown => h.n = d.hours
                 /\ m.shown => m.n = d.minutes
                 /\ sec.shown => sec.n = d.seconds
                 /\ Len(Tokens(out.text)) =
                       2 * Cardinality({u \in {UnitH, UnitMin, UnitS} :
                                           Shown(out.text, u).shown})

\* C13's case: 3,725,000 ms are 1 h 2 min 5 s and render as "1 h 2 min".
C13_Witness ==
    /\ fn = "format_duration"
    /\ arg = PyInt(3725000)
    /\ out.text = <<"1"," ","h"," ","2"," ","m","i","n">>

(***************************************************************************)
(* format_boolean_field of src/app.py and its two calls in the Video       *)
(* section of the text report.  A track is a function from the attribute   *)
(* names it has to their values.                                           *)
(***************************************************************************)
BoolPad == [i \in 1..34 |-> " "]
Yes == <<"Y","e","s">>
No == <<"N","o">>
boolean_line(display_name, word) == display_name \o BoolPad \o <<":"," ">> \o word

format_boolean_field_cased(track, field_name, display_name) ==
    IF field_name \notin DOMAIN track THEN NoneStr
    ELSE LET value == track[field_name]
             value_lower == Strip(value.s)
         IN  IF value.t = "None" \/ (value.t = "str" /\ value.s = <<>>) THEN NoneStr
             ELSE IF value.t = "str"
             THEN (IF value_lower \in {<<"y","e","s">>, <<"1">>, <<"t","r","u","e">>}
                   THEN Str(boolean_line(display_name, Yes))
                   ELSE IF value_lower \in {<<"n","o">>, <<"0">>, <<"f","a","l","s","e">>}
                   THEN Str(boolean_line(display_name, No))
                   ELSE NoneStr)
             ELSE IF value.t = "bool"
             THEN Str(boolean_line(display_name, IF Truthy(value) THEN Yes ELSE No))
             ELSE IF value = PyInt(1) \/ value = PyFloat(1000)
             THEN Str(boolean_line(display_name, Yes))
             ELSE IF value = PyInt(0) \/ value = PyFloat(0)
             THEN Str(boolean_line(display_name, No))
             ELSE NoneStr

format_boolean_field(track, field_name, display_name) ==
    IF field_name \notin DOMAIN track THEN NoneStr
    ELSE LET value == track[field_name]
             value_lower == Strip(lower(value.s))
         IN  IF value.t = "None" \/ (value.t = "str" /\ value.s = <<>>) THEN NoneStr
             ELSE IF value.t = "str"
             THEN (IF value_lower \in {<<"y","e","s">>, <<"1">>, <<"t","r","u","e">>}
                   THEN Str(boolean_line(display_name, Yes))
                   ELSE IF value_lower \in {<<"n","o">>, <<"0">>, <<"f","a","l","s","e">>}
                   THEN Str(boolean_line(display_name, No))
                   ELSE NoneStr)
             ELSE IF value.t = "bool"
             THEN Str(boolean_line(display_name, IF Truthy(value) THEN Yes ELSE No))
             ELSE IF value = PyInt(1) \/ value = PyFloat(1000)
             THEN Str(boolean_line(display_name, Yes))
             ELSE IF value = PyInt(0) \/ value = PyFloat(0)
             THEN Str(boolean_line(display_name, No))
             ELSE NoneStr

BoolFields == {"default", "forced"}
BoolStrs == {<<>>, <<"y","e","s">>, <<"Y","e","s">>, <<"T","R","U","E">>, <<"1">>,
             <<"n","o">>, <<"N","o">>, <<"0">>, <<"F","a","l","s","e">>,
             <<" ","y","e","s"," ">>, <<"m","a","y","b","e">>, <<"2">>}
BoolValues ==
    {PyNone, PyBool(TRUE), PyBool(FALSE), PyInt(0), PyInt(1), PyInt(2),
     PyFloat(0), PyFloat(1000), PyFloat(500)}
    \cup {PyStr(cs) : cs \in BoolStrs}
BoolTracks == UNION {[S -> BoolValues] : S \in SUBSET BoolFields}

NoLines == [default_line |-> NoneStr, forced_line |-> NoneStr, output_lines |-> <<>>]

InitBool ==
    /\ variant = "app"
    /\ fs = [n \in Names |-> NoFile]
    /\ ReqInit
    /\ fn = "none"
    /\ arg \in BoolTracks
    /\ out = NoLines

\* default_line = format_boolean_field(track, 'default', 'Default');
\* if default_line: output_lines.append(default_line)
FormatDefault ==
    /\ fn = "none"
    /\ LET default_line ==
               format_boolean_field(arg, "default", <<"D","e","f","a","u","l","t">>)
       IN  out' = [out EXCEPT !.default_line = default_line,
                              !.output_lines =
                                  IF Falsy(default_line) THEN @ ELSE Append(@, default_line.s)]
    /\ fn' = "default"
    /\ UNCHANGED <<variant, fs, reqVars, arg>>

\* forced_line = format_boolean_field(track, 'forced', 'Forced');
\* if forced_line: output_lines.append(forced_line)
FormatForced ==
    /\ fn = "default"
    /\ LET forced_line ==
               format_boolean_field(arg, "forced", <<"F","o","r","c","e","d">>)
       IN  out' = [out EXCEPT !.forced_line = forced_line,
                              !.output_lines =
                                  IF Falsy(forced_line) THEN @ ELSE Append(@, forced_line.s)]
    /\ fn' = "forced"
    /\ UNCHANGED <<variant, fs, reqVars, arg>>

NextBool == FormatDefault \/ FormatForced

SpecBool == InitBool /\ [][NextBool]_vars

\* What a value means as a boolean, Norm being applied to a string before
\* it is compared: "yes", "no" or "none".
BooleanMeaning(track, field, Norm(_)) ==
    IF field \notin DOMAIN track THEN "none"
    ELSE LET v == track[field]
         IN  CASE v.t = "str" /\ Norm(v.s) \in {<<"y","e","s">>, <<"1">>, <<"t","r","u","e">>}
                    -> "yes"
               [] v.t = "str" /\ Norm(v.s) \in {<<"n","o">>, <<"0">>, <<"f","a","l","s","e">>}
                    -> "no"
               [] v = PyBool(TRUE) \/ v = PyInt(1) \/ v = PyFloat(1000) -> "yes"
               [] v = PyBool(FALSE) \/ v = PyInt(0) \/ v = PyFloat(0) -> "no"
               [] OTHER -> "none"

EndsWith(s, suffix) ==
    Len(s) >= Len(suffix) /\ SubSeq(s, Len(s) - Len(suffix) + 1, Len(s)) = suffix
StartsWith(s, prefix) == Len(s) >= Len(prefix) /\ SubSeq(s, 1, Len(prefix)) = prefix

\* The line of a field and the report agree with the meaning of its value.
FieldAsMeant(line, name, meaning) ==
    LET mine == {i \in 1..Len(out.output_lines) : StartsWith(out.output_lines[i], name)}
    IN  IF meaning = "none"
        THEN line = NoneStr /\ mine = {}
        ELSE /\ ~line.isNone
             /\ EndsWith(line.s, IF meaning = "yes" THEN <<":"," ">> \o Yes
                                 ELSE <<":"," ">> \o No)
             /\ Cardinality(mine) = 1
             /\ \A i \in mine : out.output_lines[i] = line.s

BooleanPolicy(Norm(_)) ==
    /\ fn \in {"default", "forced"} =>
          FieldAsMeant(out.default_line, <<"D","e","f","a","u","l","t">>,
                       BooleanMeaning(arg, "default", Norm))
    /\ fn = "forced" =>
          FieldAsMeant(out.forced_line, <<"F","o","r","c","e","d">>,
                       BooleanMeaning(arg, "forced", Norm))

LowerOnly(s) == lower(s)
LowerStripped(s) == Strip(lower(s))

\* C14 as stated: "Yes" for the strings yes/1/true in any letter case, for
\* True and for the number 1; "No" for the strings no/0/false in any letter
\* case, for False and for the number 0; for every other value, and for a
\* missing attribute, nothing, and the report has no line for the field.
C14_BooleanAsStated == BooleanPolicy(LowerOnly)

\* C14 amended: as stated, a string being compared after its surrounding
\* blanks are stripped as well (" yes " yields "Yes").
C14_BooleanField == BooleanPolicy(LowerStripped)

\* C14's case: the track has default = "TRUE" and no forced attribute; the
\* report has the one line "Default ... : Yes".
C14_Witness ==
    /\ fn = "forced"
    /\ arg = [f \in {"default"} |-> PyStr(<<"T","R","U","E">>)]
    /\ out.forced_line = NoneStr
    /\ out.output_lines = <<boolean_line(<<"D","e","f","a","u","l","t">>, Yes)>>

(***************************************************************************)
(* The text report of src/app.py: the loop over media_info.tracks, reduced *)
(* to the section header each iteration appends (the field lines of a      *)
(* section are left out).  arg is the list of the tracks' track_type.      *)
(***************************************************************************)
TrackKinds == {"General", "Video", "Audio", "Text", "Menu", "Other"}
TrackLists == UNION {[1..n -> TrackKinds] : n \in 0..MaxTracks}

KindName(kind) ==
    CASE kind = "General" -> <<"G","e","n","e","r","a","l">>
      [] kind = "Video" -> <<"V","i","d","e","o">>
      [] kind = "Audio" -> <<"A","u","d","i","o">>
      [] kind = "Text" -> <<"T","e","x","t">>
      [] kind = "Menu" -> <<"M","e","n","u">>

\* "\n<Kind>" for the first track counted, f"\n<Kind> #{count}" after it.
counted_header(kind, count) ==
    IF count = 1 THEN <<"\n">> \o KindName(kind)
    ELSE <<"\n">> \o KindName(kind) \o <<" ","#">> \o IntStr(count)

NoReport == [i |-> 0, audio_count |-> 0, text_count |-> 0, output_lines |-> <<>>]

InitReport ==
    /\ variant = "app"
    /\ fs = [n \in Names |-> NoFile]
    /\ ReqInit
    /\ fn = "report"
    /\ arg \in TrackLists
    /\ out = NoReport

\* One iteration of the loop, for a track of the given kind.
Iteration(kind, audio_count, text_count, lines) ==
    /\ fn = "report"
    /\ out.i < Len(arg)
    /\ arg[out.i + 1] = kind
    /\ out' = [i |-> out.i + 1, audio_count |-> audio_count,
               text_count |-> text_count, output_lines |-> out.output_lines \o lines]
    /\ UNCHANGED <<variant, fs, reqVars, fn, arg>>

ReportGeneral ==
    Iteration("General", out.audio_count, out.text_count, <<KindName("General")>>)
ReportVideo ==
    Iteration("Video", out.audio_count, out.text_count, << <<"\n">> \o KindName("Video") >>)
ReportAudio ==
    Iteration("Audio", out.audio_count + 1, out.text_count,
              <<counted_header("Audio", out.audio_count + 1)>>)
ReportText ==
    Iteration("Text", out.audio_count, out.text_count + 1,
              <<counted_header("Text", out.text_count + 1)>>)
ReportMenu ==
    Iteration("Menu", out.audio_count, out.text_count, << <<"\n">> \o KindName("Menu") >>)
\* A track of another type matches no branch.
ReportOther == Iteration("Other", out.audio_count, out.text_count, <<>>)

\* return '\n'.join(output_lines), 200, {...}
ReportReturn ==
    /\ fn = "report"
    /\ out.i = Len(arg)
    /\ fn' = "returned"
    /\ UNCHANGED <<variant, fs, reqVars, arg, out>>

NextReport ==
    \/ ReportGeneral
    \/ ReportVideo
    \/ ReportAudio
    \/ ReportText
    \/ ReportMenu
    \/ ReportOther
    \/ ReportReturn

SpecReport == InitReport /\ [][NextReport]_vars

\* The header the loop appended for track j (a track of a kind that has a
\* section), without the newline that precedes it.
HeaderOf(j) ==
    LET line == out.output_lines[Cardinality({l \in 1..j : arg[l] # "Other"})]
    IN  IF line # <<>> /\ line[1] = "\n" THEN Tail(line) ELSE line

\* The rank of track j among the tracks of its kind.
RankInKind(j) == Cardinality({l \in 1..j : arg[l] = arg[j]})

\* C15: in the text report, the first track of a kind among Video, Audio,
\* Text and Menu is headed "<Kind>" and the k-th (k >= 2) "<Kind> #k",
\* whatever tracks of other kinds lie between them.
C15_HeaderCounters ==
    \A j \in 1..out.i :
        arg[j] \in {"Video", "Audio", "Text", "Menu"} =>
            HeaderOf(j) = KindName(arg[j])
                          \o (IF RankInKind(j) = 1 THEN <<>>
                              ELSE <<" ","#">> \o IntStr(RankInKind(j)))

\* The order of the steps of one request.
Rank(p) ==
    CASE p = "idle" -> 0
      [] p = "handler" -> 1
      [] p = "ds_resolve" -> 2
      [] p = "ds_get" -> 3
      [] p = "ds_create" -> 4
      [] p = "ds_read" -> 5
      [] p = "ds_close" -> 6
      [] p = "parse" -> 7
      [] p = "render" -> 8
      [] p = "finally" -> 9
      [] p = "done" -> 10

\* The length of the fixed candidate list of src/app.py.
CandidateListLength == 3

\* The GET requests of a request stay within their bound, and the extractor
\* has an artifact that download_sample returned.
BoundedRequests(r) ==
    /\ HasHost(url[r].s) => Len(attempts[r]) <= CandidateListLength
    /\ ~HasHost(url[r].s) =>
          /\ Len(attempts[r]) <= 1
          /\ Rank(pc[r]) > Rank("ds_get") => Len(attempts[r]) = 1
    /\ pc[r] \in {"parse", "render"} =>
          /\ failure[r] = "none"
          /\ temp_path[r] # 0
          /\ temp_path[r] = temp_file[r]
          /\ Owns(r, temp_path[r])
    /\ failure[r] \in DownloadFailures => pc[r] = "done"
    /\ failure[r] \in {"extract", "present"} => pc[r] \in {"finally", "done"}

\* A request never returns to a step it has left (so the extractor, which
\* one step invokes once, is invoked at most once), every GET that is
\* followed by another is followed by the next candidate's, and after a
\* failure that ends the pipeline nothing but the cleanup runs.
NoStepAgain(r) ==
    /\ Rank(pc'[r]) >= Rank(pc[r])
    /\ (pc[r] = "ds_get" /\ pc'[r] = "ds_get" /\ attempts'[r] # attempts[r]) =>
          /\ cand'[r] = cand[r] + 1
          /\ Len(attempts'[r]) = Len(attempts[r]) + 1
    /\ failure[r] # "none" =>
          /\ attempts'[r] = attempts[r]
          /\ failure'[r] = failure[r]
          /\ pc'[r] \in {"finally", "done"}

\* C16: within one request MediaInfo.parse is invoked at most once, and only
\* on an artifact download_sample returned; at most 3 GET requests are issued
\* for an indirection URL and exactly 1 otherwise; no step is entered again
\* after a failure.
C16_NoRetry ==
    /\ [](\A r \in Reqs : Analysis(r) => BoundedRequests(r))
    /\ [][\A r \in Reqs : NoStepAgain(r)]_vars

\* C16's case: the first two candidates were rejected, the third was
\* accepted, and the extractor has run on the artifact.
C16_Witness ==
    \E r \in Reqs :
        /\ variant = "app"
        /\ pc[r] = "finally"
        /\ failure[r] = "none"
        /\ Len(attempts[r]) = 3
        /\ attempts[r][1].raised
        /\ ~attempts[r][3].raised

\* C17: for a URL that is no indirection URL and whose response has an error
\* status (400 or above), download_sample fails at the status check, before
\* the temporary file is created: no artifact exists, the extractor is not
\* invoked, and the handler answers 500.
C17_FailedStatusFailsFast ==
    \A r \in Reqs :
        (/\ Analysis(r)
         /\ ~HasHost(url[r].s)
         /\ Len(attempts[r]) = 1
         /\ ~attempts[r][1].raised
         /\ attempts[r][1].status >= 400) =>
            /\ pc[r] = "done"
            /\ failure[r] = "status"
            /\ temp_file[r] = 0
            /\ temp_path[r] = 0
            /\ ~HasArtifact(r)
            /\ reply[r].status = 500
            /\ ContainsFailed(reply[r].msg)

\* C17's case: get_mediainfo's GET of a direct URL was answered 404.
C17_Witness ==
    \E r \in Reqs :
        /\ variant = "index"
        /\ handler[r] = "get_mediainfo"
        /\ url[r] = Str(U_direct)
        /\ Len(attempts[r]) = 1
        /\ attempts[r][1].status = 404
        /\ failure[r] = "status"
        /\ pc[r] = "done"

(***************************************************************************)
(* Concurrent requests: every request of Reqs is served by its own thread  *)
(* of src/app.py, the steps interleaved in any order.  Each request asks   *)
(* for the same direct URL in the default format.                          *)
(***************************************************************************)
InitConc ==
    /\ variant = "app"
    /\ fs = [n \in Names |-> NoFile]
    /\ ReqInit
    /\ PureIdle

ReceiveDirect(r) ==
    /\ pc[r] = "idle"
    /\ via' = [via EXCEPT ![r] = "http"]
    /\ handler' = [handler EXCEPT ![r] = dispatch(variant)]
    /\ url' = [url EXCEPT ![r] = Str(U_direct)]
    /\ fmt' = [fmt EXCEPT ![r] = NoneStr]
    /\ pc' = [pc EXCEPT ![r] = "handler"]
    /\ UNCHANGED <<variant, fs, cand, attempts, response, temp_file, downloaded,
                   temp_path, content_length, exc, retval, reply, failure,
                   unlinkFailed, pureVars>>

ServeConc(r) ==
    \/ ReceiveDirect(r)
    \/ Enter(r)
    \/ Resolve(r)
    \/ GetRaises(r)
    \/ GetReturns(r)
    \/ CreateTemp(r)
    \/ CreateRaises(r)
    \/ ReadChunk(r)
    \/ ReadEnd(r)
    \/ ReadRaises(r)
    \/ CloseReturn(r)
    \/ Parse(r)
    \/ Render(r)
    \/ Finally(r)

NextConc == \E r \in Reqs : ServeConc(r)

SpecConc == InitConc /\ [][NextConc]_vars

\* C18: in any interleaving of the requests, a request writes to, reads and
\* deletes only the artifact it created (the artifacts of two requests that
\* are both under way have distinct names), and once all requests have
\* returned -- no os.unlink having failed -- no artifact remains.
C18_ConcurrentArtifacts ==
    /\ \A r \in Reqs :
          /\ pc[r] \in {"ds_read", "ds_close"} => Owns(r, temp_file[r])
          /\ pc[r] \in {"parse", "render", "finally"} => Owns(r, temp_path[r])
    /\ \A r1, r2 \in Reqs :
          (/\ r1 # r2
           /\ pc[r1] \in {"ds_read", "ds_close", "parse", "render", "finally"}
           /\ pc[r2] \in {"ds_read", "ds_close", "parse", "render", "finally"}) =>
              temp_file[r1] # temp_file[r2]
    /\ (\A r \in Reqs : pc[r] = "done" /\ ~unlinkFailed[r]) =>
          \A n \in Names : ~fs[n].exists

(***************************************************************************)
(* Progress.  The handler's own steps always complete.  requests.get and   *)
(* the reads of the body carry timeout=30: a server that stops answering   *)
(* makes the step raise (GetRaises, ReadRaises), so these steps complete   *)
(* as well.  MediaInfo.parse(temp_path) is called with no timeout: besides *)
(* returning or raising (Parse) it may never return (ParseBlocks).         *)
(***************************************************************************)
ParseBlocks(r) ==
    /\ pc[r] = "parse"
    /\ pc' = [pc EXCEPT ![r] = "blocked"]
    /\ UNCHANGED <<variant, fs, via, handler, url, fmt, cand, attempts, response,
                   temp_file, downloaded, temp_path, content_length, exc, retval,
                   reply, failure, unlinkFailed, pureVars>>

NextLive == \E r \in Solo : Serve(r) \/ ParseBlocks(r)

LiveSpec == Init /\ [][NextLive]_vars /\ WF_vars(NextLive)

\* C19: every request that carries a url eventually returns a response,
\* also when the server stops sending the body or the extractor does not
\* return.
C19_EventuallyResponds ==
    \A r \in Reqs : (pc[r] = "handler" /\ Analysis(r)) ~> (pc[r] = "done")

\* The request ended with the result of the Presenter.
Succeeded(r) ==
    /\ pc[r] = "done"
    /\ Analysis(r)
    /\ failure[r] = "none"

\* C20: the declared length download_sample returns is the Content-Length
\* header of the response whose body was sampled (the last GET's, which was
\* accepted), None when the header is absent; the file size the result
\* shows is the rendering of that declared length, never of the bytes
\* sampled, and "Unknown" in JSON mode when the header is absent.
C20_DeclaredLength ==
    \A r \in Reqs :
        /\ (Analysis(r) /\ temp_path[r] # 0) =>
              LET a == attempts[r]
              IN  /\ a # <<>>
                  /\ ~a[Len(a)].raised
                  /\ response[r].url = a[Len(a)].url
                  /\ response[r].status = a[Len(a)].status
                  /\ content_length[r] = response[r].clen
        /\ Succeeded(r) =>
              LET shown == reply[r].file_size
                  declared == content_length[r]
              IN  /\ declared.isNone =>
                        IF IsJson(variant, fmt[r]) THEN shown = FileSize(Unknown)
                        ELSE ~shown.shown
                  /\ ~declared.isNone =>
                        /\ shown.shown
                        /\ RenderedNumber(shown.text).ok
                        /\ RenderedNumber(shown.text).w = DigitsVal(declared.s)

=============================================================================
